---- MODULE Spec2Model ----
(***************************************************************************)
(* A model of lando's landing-job queue and repository operations          *)
(* (src/src/lando/main/models.py).                                         *)
(*                                                                         *)
(* The database is the sequence `jobs` of LandingJob rows (a row's id is   *)
(* its index: the auto-increment primary key) and the many-to-many table   *)
(* `jobRevs`.  Time is the integer clock `now`.  A query without an ORDER   *)
(* BY, or whose ORDER BY leaves ties, may return its rows in any order the  *)
(* database likes: such a query is modelled as the SET of the sequences it  *)
(* may return, and the action that runs it picks one.                      *)
(*                                                                         *)
(* A Repo is its persisted record `repoDb`, the Repo objects `mem` that     *)
(* callers hold, and its one working copy `work`.  Each Repo method is a    *)
(* sequence of steps, one per database access, file or git command, so that *)
(* the calls of two callers interleave; git's exit codes are the            *)
(* environment's choice.                                                    *)
(***************************************************************************)
EXTENDS Integers, Sequences, FiniteSets, TLC

VARIABLES
    jobs,       \* the LandingJob table: a sequence of rows
    now,        \* the wall clock (datetime.now), in ticks
    result,     \* the last evaluated job_queue_query: its arguments and rows
    wpc,        \* per worker: "idle", or "locked" inside its claim transaction
    selected,   \* per worker: the id of the row its transaction has locked
    received,   \* history, per job: the workers next_job has returned it to
    fresh,      \* history, per job: those that got it while it was not IN_PROGRESS
    jobRevs,    \* the LandingJob-Revision table: per job, the revisions added to it
    enq,        \* the add_job_with_revisions call under way, or the last one
    readBack,   \* the last read of a job's revisions: the job and the sequence read
    repoDb,     \* the persisted Repo record: is_initialized and system_path
    mem,        \* per caller: its in-memory Repo object's is_initialized and system_path
    call,       \* per caller: the Repo method it is in, where, the commands run, the outcome
    tmp,        \* per caller: the temporary files its apply_patch has open
    work,       \* the Repo's working copy: has it unstaged changes, staged changes
    loc,        \* per caller: the locals of its apply_patch call
    made        \* per caller: the commit its call has created in the working copy

queueVars == <<jobs, now, result>>

workerVars == <<wpc, selected, received, fresh>>

enqueueVars == <<jobRevs, enq, readBack>>

repoVars == <<repoDb, mem, call, tmp, work, loc, made>>

\* The working copy and what apply_patch has in hand.
copyVars == <<work, loc, made>>

\* What the Repo methods leave alone.
otherVars == <<jobs, now, result, wpc, selected, received, fresh, jobRevs, enq, readBack>>

vars ==
    <<jobs, now, result, wpc, selected, received, fresh, jobRevs, enq, readBack,
      repoDb, mem, call, tmp, work, loc, made>>

(***************************************************************************)
(* Bounds of the model.                                                    *)
(***************************************************************************)
MaxJobs == 2

MaxTime == 2

MaxGrace == 1

MaxEnqueued == 2

MaxRevisions == 2

(***************************************************************************)
(* Values.                                                                 *)
(***************************************************************************)
\* Python's None / SQL NULL.
None == "<None>"

\* LandingJobStatus: the values stored in the status column.
SUBMITTED == "SUBMITTED"

IN_PROGRESS == "IN_PROGRESS"

DEFERRED == "DEFERRED"

FAILED == "FAILED"

LANDED == "LANDED"

CANCELLED == "CANCELLED"

LandingJobStatus == {SUBMITTED, IN_PROGRESS, DEFERRED, FAILED, LANDED, CANCELLED}

\* The Repo rows that exist.
Repos == {"r1", "r2"}

\* The priorities a caller gives a job (0 is the field's default).
Priorities == {0, 1}

\* The Revision rows that exist.
Revisions == {"a", "b"}

\* The callers of a Repo's methods, each holding its own Repo object of the
\* one Repo row.
Callers == {"c1", "c2"}

\* subprocess.run's returncode: 0, or 1 standing for every non-zero code.
ExitCodes == {0, 1}

\* The landing workers.
Workers == {"w1", "w2"}

\* DEFAULT_GRACE_SECONDS = int(os.environ.get("DEFAULT_GRACE_SECONDS", 60 * 2)):
\* the environment's value, here one tick of the clock.
DEFAULT_GRACE_SECONDS == 1

(***************************************************************************)
(* LandingJob.job_queue_query                                              *)
(***************************************************************************)
\* The `repositories` argument: Python's None, or a collection of Repo rows.
RepositoriesNone == [isNone |-> TRUE, items |-> {}]

RepositoriesOf(S) == [isNone |-> FALSE, items |-> S]

RepositoriesArgs == {RepositoriesNone} \cup {RepositoriesOf(S) : S \in SUBSET Repos}

\* The text of a status value, as the code points of its characters: the
\* status column is a CharField, so the database compares these.
StatusChars(s) ==
    CASE s = SUBMITTED   -> <<83, 85, 66, 77, 73, 84, 84, 69, 68>>
      [] s = IN_PROGRESS -> <<73, 78, 95, 80, 82, 79, 71, 82, 69, 83, 83>>
      [] s = DEFERRED    -> <<68, 69, 70, 69, 82, 82, 69, 68>>
      [] s = FAILED      -> <<70, 65, 73, 76, 69, 68>>
      [] s = LANDED      -> <<76, 65, 78, 68, 69, 68>>
      [] s = CANCELLED   -> <<67, 65, 78, 67, 69, 76, 76, 69, 68>>

\* a < b for two character strings (lexicographic order).
TextLess(a, b) ==
    \E k \in 1..(Len(a) + 1) :
        /\ \A i \in 1..(k - 1) : i <= Len(b) /\ a[i] = b[i]
        /\ \/ k = Len(a) + 1 /\ Len(b) >= k
           \/ k <= Len(a) /\ k <= Len(b) /\ a[k] < b[k]

\* The database's comparison of two status values, StatusOrder[a][b] = a < b,
\* tabulated once.
StatusOrder ==
    [a \in LandingJobStatus |->
        [b \in LandingJobStatus |-> TextLess(StatusChars(a), StatusChars(b))]]

\* Mutant of ApplicableStatuses: a terminal status listed among the
\* applicable ones.
ApplicableStatusesWithLanded == {SUBMITTED, IN_PROGRESS, DEFERRED, LANDED}

\* applicable_statuses, and filter(status__in=applicable_statuses): a NULL
\* status is in no list.
ApplicableStatuses == {SUBMITTED, IN_PROGRESS, DEFERRED}

FilterStatus(rows) == {r \in rows : r.status \in ApplicableStatuses}

\* `if repositories:` is Python truthiness: None and an empty collection are
\* both false.  filter(target_repo__in=repositories): NULL is in no list.
Truthy(repositories) == ~repositories.isNone /\ repositories.items # {}

FilterRepositories(rows, repositories) ==
    IF Truthy(repositories)
    THEN {r \in rows : r.target_repo \in repositories.items}
    ELSE rows

\* Mutant of FilterGrace: the filter applied whatever grace_seconds is, 0
\* included.
FilterGraceUnconditional(rows, grace_seconds, t) ==
    {r \in rows : r.created_at < t - grace_seconds}

\* Mutant of FilterGrace: created_at__lte, which keeps the row created
\* exactly at the cutoff.
FilterGraceInclusive(rows, grace_seconds, t) ==
    IF grace_seconds # 0
    THEN {r \in rows : r.created_at <= t - grace_seconds}
    ELSE rows

\* `if grace_seconds:` is truthiness too: 0 is false.
\* filter(created_at__lt = now - grace_seconds).
FilterGrace(rows, grace_seconds, t) ==
    IF grace_seconds # 0
    THEN {r \in rows : r.created_at < t - grace_seconds}
    ELSE rows

\* Mutant of OrderedBefore: order_by("-status", "priority", "created_at"),
\* the priority ascending.
OrderedBeforePriorityAscending(a, b) ==
    \/ StatusOrder[b.status][a.status]
    \/ /\ a.status = b.status
       /\ \/ a.priority < b.priority
          \/ a.priority = b.priority /\ a.created_at < b.created_at

\* order_by("-status", "-priority", "created_at"): row a sorts strictly
\* before row b.
OrderedBefore(a, b) ==
    \/ StatusOrder[b.status][a.status]
    \/ /\ a.status = b.status
       /\ \/ a.priority > b.priority
          \/ a.priority = b.priority /\ a.created_at < b.created_at

\* The orders in which the database may return the set `rows` under that
\* ORDER BY: rows that tie on all three keys come in any order.
RECURSIVE OrderBy(_)
OrderBy(rows) ==
    IF rows = {} THEN {<<>>}
    ELSE UNION {{<<r>> \o rest : rest \in OrderBy(rows \ {r})} :
                r \in {x \in rows : \A y \in rows : ~OrderedBefore(y, x)}}

\* job_queue_query(repositories, grace_seconds) evaluated at time t over the
\* table `table`: the sequences of rows it may return.
JobQueueQuery(table, repositories, grace_seconds, t) ==
    OrderBy(FilterGrace(FilterRepositories(FilterStatus(
        {table[i] : i \in DOMAIN table}), repositories), grace_seconds, t))

(***************************************************************************)
(* The table and the clock.                                                *)
(***************************************************************************)
\* LandingJob(**params); job.save(): a new row.  The primary key is the next
\* integer, created_at is the time of the save (auto_now_add), and a field
\* that params does not name has its default: status None, priority 0,
\* target_repo NULL.
NewJob(table, params, t) ==
    [id |-> Len(table) + 1,
     status |-> params.status,
     priority |-> params.priority,
     created_at |-> t,
     target_repo |-> params.target_repo]

\* No query has been evaluated since the table or the clock last changed.
NoResult ==
    [evaluated |-> FALSE, repositories |-> RepositoriesNone,
     grace_seconds |-> 0, at |-> 0, rows |-> <<>>]

\* The clock advances.
Tick ==
    /\ now < MaxTime
    /\ now' = now + 1
    /\ result' = NoResult
    /\ UNCHANGED jobs

\* The rows the query specification stores: every status (and none) on one
\* repository, every priority on the queue's statuses, and the other
\* repository and no repository on a queued job.
QueryJobParams ==
    [status : {SUBMITTED, IN_PROGRESS, DEFERRED}, priority : Priorities,
     target_repo : {"r1"}]
    \cup [status : {FAILED, LANDED, CANCELLED, None}, priority : {1},
          target_repo : {"r1"}]
    \cup [status : {SUBMITTED}, priority : {0}, target_repo : {"r2", None}]

\* job = LandingJob(**params); job.save()
SaveJob(params) ==
    /\ Len(jobs) < MaxJobs
    /\ jobs' = Append(jobs, NewJob(jobs, params, now))
    /\ result' = NoResult
    /\ UNCHANGED now

\* A caller evaluates job_queue_query(repositories, grace_seconds) now and
\* keeps the rows it got.  (One evaluation per state of the table and the
\* clock: a second one would only replace the rows held.)
Query(repositories, grace_seconds) ==
    /\ ~result.evaluated
    /\ \E rows \in JobQueueQuery(jobs, repositories, grace_seconds, now) :
           result' = [evaluated |-> TRUE, repositories |-> repositories,
                      grace_seconds |-> grace_seconds, at |-> now, rows |-> rows]
    /\ UNCHANGED <<jobs, now>>

(***************************************************************************)
(* add_job_with_revisions and the job's revisions.                         *)
(***************************************************************************)
\* No add_job_with_revisions call has been made.
NoCall == [pc |-> "idle", job |-> 0, revisions |-> <<>>, i |-> 1]

\* The last step was not a read of a job's revisions.
NoRead == [job |-> 0, revisions |-> <<>>]

\* The lists of revisions a caller passes.
RECURSIVE SeqsUpTo(_, _)
SeqsUpTo(S, n) ==
    IF n = 0 THEN {<<>>}
    ELSE SeqsUpTo(S, n - 1) \cup
         {Append(q, x) : q \in {p \in SeqsUpTo(S, n - 1) : Len(p) = n - 1}, x \in S}

\* A landing names each of its revisions once.
RevisionLists ==
    {q \in SeqsUpTo(Revisions, MaxRevisions) :
        \A i \in DOMAIN q, j \in DOMAIN q : i # j => q[i] # q[j]}

\* The params a caller passes: the status left out (the field's default, None)
\* or SUBMITTED; priority and target_repo as given.
EnqueueJobParams ==
    [status : {None, SUBMITTED}, priority : {0}, target_repo : {"r1"}]

\* add_job_with_revisions(revisions, **params), up to and including
\* job.save(): the row exists from here on, with no revision yet.
AddJobSave(revisions, params) ==
    /\ enq.pc = "idle"
    /\ Len(jobs) < MaxEnqueued
    /\ jobs' = Append(jobs, NewJob(jobs, params, now))
    /\ jobRevs' = Append(jobRevs, {})
    /\ enq' = [pc |-> "adding", job |-> Len(jobs) + 1, revisions |-> revisions, i |-> 1]
    /\ result' = NoResult
    /\ readBack' = NoRead
    /\ UNCHANGED now

\* One turn of the loop: job.revisions.add(revision).  The many-to-many table
\* holds a (job, revision) pair once; adding it again changes nothing.
AddRevision ==
    /\ enq.pc = "adding"
    /\ enq.i <= Len(enq.revisions)
    /\ jobRevs' = [jobRevs EXCEPT ![enq.job] = @ \cup {enq.revisions[enq.i]}]
    /\ enq' = [enq EXCEPT !.i = @ + 1]
    /\ result' = NoResult
    /\ readBack' = NoRead
    /\ UNCHANGED <<jobs, now>>

\* The loop is over: return job.
AddJobReturn ==
    /\ enq.pc = "adding"
    /\ enq.i > Len(enq.revisions)
    /\ enq' = [enq EXCEPT !.pc = "idle"]
    /\ result' = NoResult
    /\ readBack' = NoRead
    /\ UNCHANGED <<jobs, now, jobRevs>>

\* The orders in which job.revisions.all() may return the set S of revisions:
\* the field declares no ordering (models.py:124, "TODO: order by index"), so
\* any.
RECURSIVE RevisionOrders(_)
RevisionOrders(S) ==
    IF S = {} THEN {<<>>}
    ELSE UNION {{<<x>> \o rest : rest \in RevisionOrders(S \ {x})} : x \in S}

\* A caller reads job j's revisions back.
ReadRevisions(j) ==
    /\ \E revisions \in RevisionOrders(jobRevs[j]) :
           readBack' = [job |-> j, revisions |-> revisions]
    /\ readBack.job = 0
    /\ result' = NoResult
    /\ UNCHANGED <<jobs, now, jobRevs, enq>>

(***************************************************************************)
(* Repo: the methods that run git.                                         *)
(***************************************************************************)
\* A Repo as created: is_initialized False, system_path "".
NewRepo == [is_initialized |-> FALSE, system_path |-> ""]

\* str(Path(settings.REPO_ROOT) / self.name)
RepoPath == "REPO_ROOT/name"

\* The caller is in no method and has called none.
NoMethod == [op |-> "", pc |-> "idle", outcome |-> "", cmds |-> <<>>]

\* The methods of Repo that run git.
RepoMethods ==
    {"initialize", "pull", "reset", "apply_patch", "last_commit_id", "push"}

\* A patch buffer: its header's From and Date and its commit message (the
\* diff body is not looked into).  One buffer is not a patch at all.
NotAPatch == [From |-> None, Date |-> None, description |-> None]

\* The buffers a caller passes: two patches that share no header value and no
\* message, and the one that cannot be parsed.
PatchBuffers ==
    {[From |-> "author1", Date |-> "date1", description |-> "message1"],
     [From |-> "author2", Date |-> "date2", description |-> "message2"],
     NotAPatch}

\* GitPatchHelper(patch_buffer): the header's fields by name, and the commit
\* description.
GitPatchHelper(patch_buffer) ==
    [header |-> [From |-> patch_buffer.From, Date |-> patch_buffer.Date],
     commit_description |-> patch_buffer.description]

\* patch_helper.get_header(name)
GetHeader(patch_helper, name) == patch_helper.header[name]

\* apply_patch's locals before the call: no buffer, no helper, nothing written
\* to f_msg, date and user unassigned.
NoLocals ==
    [patch_buffer |-> None, patch_helper |-> None, f_msg |-> "",
     date |-> None, user |-> None]

\* The call has created no commit.
NoCommit == [author |-> None, date |-> None, message |-> None]

\* A working copy with nothing modified and nothing staged.
CleanCopy == [unstaged |-> FALSE, staged |-> FALSE]

\* The caller gets the Repo from the database (Repo.objects.get).
Fetch(c) ==
    /\ call[c].pc = "idle"
    /\ mem[c] # repoDb
    /\ mem' = [mem EXCEPT ![c] = repoDb]
    /\ UNCHANGED <<repoDb, call, tmp>>
    /\ UNCHANGED copyVars

\* The caller calls method op of its Repo object.
Start(c, op) ==
    /\ call[c].pc = "idle"
    /\ call' = [call EXCEPT ![c] = [op |-> op, pc |-> op, outcome |-> "", cmds |-> <<>>]]
    /\ loc' = [loc EXCEPT ![c] = NoLocals]
    /\ made' = [made EXCEPT ![c] = NoCommit]
    /\ UNCHANGED <<repoDb, mem, tmp, work>>

\* Repo._run(*args): subprocess.run(["git", ...]) ends with returncode rc; the
\* result is returned, whatever the code.  The method goes on at `next`.
Run(c, cmd, rc, next) ==
    [call[c] EXCEPT !.cmds = Append(@, [cmd |-> cmd, returncode |-> rc]), !.pc = next]

\* The method returns to its caller / raises an exception.
Returned(m) == [m EXCEPT !.pc = "idle", !.outcome = "returned"]

Raised(m) == [m EXCEPT !.pc = "idle", !.outcome = "raised"]

\* Mutant of InitializeRefresh: the is_initialized check left out.
InitializeRefreshUnguarded(c) ==
    /\ call[c].pc = "initialize"
    /\ mem' = [mem EXCEPT ![c] = [repoDb EXCEPT !.system_path = RepoPath]]
    /\ call' = [call EXCEPT ![c].pc = "initialize_clone"]
    /\ UNCHANGED <<repoDb, tmp>>
    /\ UNCHANGED copyVars

\* initialize(), to the clone: refresh_from_db(); an initialized repository
\* raises (a bare `raise`: with no exception being handled, Python raises
\* RuntimeError); otherwise system_path is set on the object.
InitializeRefresh(c) ==
    /\ call[c].pc = "initialize"
    /\ IF repoDb.is_initialized
       THEN /\ mem' = [mem EXCEPT ![c] = repoDb]
            /\ call' = [call EXCEPT ![c] = Raised(@)]
       ELSE /\ mem' = [mem EXCEPT ![c] = [repoDb EXCEPT !.system_path = RepoPath]]
            /\ call' = [call EXCEPT ![c].pc = "initialize_clone"]
    /\ UNCHANGED <<repoDb, tmp>>
    /\ UNCHANGED copyVars

\* initialize(): git clone; returncode 0 sets is_initialized on the object,
\* any other raises Exception(returncode: stderr).
InitializeClone(c, rc) ==
    /\ call[c].pc = "initialize_clone"
    /\ IF rc = 0
       THEN /\ mem' = [mem EXCEPT ![c].is_initialized = TRUE]
            /\ call' = [call EXCEPT ![c] = Run(c, "clone", rc, "initialize_save")]
       ELSE /\ call' = [call EXCEPT ![c] = Raised(Run(c, "clone", rc, "idle"))]
            /\ UNCHANGED mem
    /\ UNCHANGED <<repoDb, tmp>>
    /\ UNCHANGED copyVars

\* initialize(): self.save() writes the object's fields to the record.
InitializeSave(c) ==
    /\ call[c].pc = "initialize_save"
    /\ repoDb' = mem[c]
    /\ call' = [call EXCEPT ![c] = Returned(@)]
    /\ UNCHANGED <<mem, tmp>>
    /\ UNCHANGED copyVars

\* Mutant of Pull: pull() followed by self.save().
PullAndSave(c, rc) ==
    /\ call[c].pc = "pull"
    /\ call' = [call EXCEPT ![c] = Returned(Run(c, "pull", rc, "idle"))]
    /\ repoDb' = mem[c]
    /\ UNCHANGED <<mem, tmp>>
    /\ UNCHANGED copyVars

\* pull(): git pull --all --prune.
Pull(c, rc) ==
    /\ call[c].pc = "pull"
    /\ call' = [call EXCEPT ![c] = Returned(Run(c, "pull", rc, "idle"))]
    /\ UNCHANGED <<repoDb, mem, tmp>>
    /\ UNCHANGED copyVars

\* reset(): git reset --hard <branch>, which, when it exits 0, has dropped
\* the staged and the unstaged changes, ...
ResetHard(c, rc) ==
    /\ call[c].pc = "reset"
    /\ call' = [call EXCEPT ![c] = Run(c, "reset", rc, "reset_clean")]
    /\ work' = IF rc = 0 THEN CleanCopy ELSE work
    /\ UNCHANGED <<repoDb, mem, tmp, loc, made>>

\* ... then git clean --force.
ResetClean(c, rc) ==
    /\ call[c].pc = "reset_clean"
    /\ call' = [call EXCEPT ![c] = Returned(Run(c, "clean", rc, "idle"))]
    /\ UNCHANGED <<repoDb, mem, tmp>>
    /\ UNCHANGED copyVars

\* apply_patch(patch_buffer): GitPatchHelper(patch_buffer) parses the buffer,
\* or raises on one it cannot parse.
ApplyPatchParse(c, patch_buffer) ==
    /\ call[c].pc = "apply_patch"
    /\ IF patch_buffer # NotAPatch
       THEN /\ loc' = [loc EXCEPT ![c] =
                          [@ EXCEPT !.patch_buffer = patch_buffer,
                                    !.patch_helper = GitPatchHelper(patch_buffer)]]
            /\ call' = [call EXCEPT ![c].pc = "apply_patch_f_msg"]
       ELSE /\ loc' = [loc EXCEPT ![c].patch_buffer = patch_buffer]
            /\ call' = [call EXCEPT ![c] = Raised(@)]
    /\ UNCHANGED <<repoDb, mem, tmp, work, made>>

\* f_msg = tempfile.NamedTemporaryFile(...), or an OSError.
ApplyPatchMsgFile(c, ok) ==
    /\ call[c].pc = "apply_patch_f_msg"
    /\ IF ok
       THEN /\ tmp' = [tmp EXCEPT ![c] = @ \cup {"f_msg"}]
            /\ call' = [call EXCEPT ![c].pc = "apply_patch_f_diff"]
       ELSE /\ call' = [call EXCEPT ![c] = Raised(@)]
            /\ UNCHANGED tmp
    /\ UNCHANGED <<repoDb, mem>>
    /\ UNCHANGED copyVars

\* f_diff = tempfile.NamedTemporaryFile(...), or an OSError: raised before
\* the with statement is entered, so f_msg is left open.
ApplyPatchDiffFile(c, ok) ==
    /\ call[c].pc = "apply_patch_f_diff"
    /\ IF ok
       THEN /\ tmp' = [tmp EXCEPT ![c] = @ \cup {"f_diff"}]
            /\ call' = [call EXCEPT ![c].pc = "apply_patch_write"]
       ELSE /\ call' = [call EXCEPT ![c] = Raised(@)]
            /\ UNCHANGED tmp
    /\ UNCHANGED <<repoDb, mem>>
    /\ UNCHANGED copyVars

\* with f_msg, f_diff: the message and the diff are written and flushed; an
\* error in there leaves the with statement, which closes both files.
ApplyPatchWrite(c, ok) ==
    /\ call[c].pc = "apply_patch_write"
    /\ IF ok
       THEN /\ call' = [call EXCEPT ![c].pc = "apply_patch_apply"]
            /\ loc' = [loc EXCEPT ![c].f_msg = loc[c].patch_helper.commit_description]
            /\ UNCHANGED tmp
       ELSE /\ call' = [call EXCEPT ![c] = Raised(@)]
            /\ tmp' = [tmp EXCEPT ![c] = {}]
            /\ UNCHANGED loc
    /\ UNCHANGED <<repoDb, mem, work, made>>

\* git apply <f_diff.name>, which, when it exits 0, has changed the working
\* tree; then date and user are read from the header.
ApplyPatchApply(c, rc) ==
    /\ call[c].pc = "apply_patch_apply"
    /\ call' = [call EXCEPT ![c] = Run(c, "apply", rc, "apply_patch_add")]
    /\ work' = IF rc = 0 THEN [work EXCEPT !.unstaged = TRUE] ELSE work
    /\ loc' = [loc EXCEPT ![c] =
                  [@ EXCEPT !.date = GetHeader(loc[c].patch_helper, "Date"),
                            !.user = GetHeader(loc[c].patch_helper, "From")]]
    /\ UNCHANGED <<repoDb, mem, tmp, made>>

\* git add -A, which, when it exits 0, has staged every change of the tree.
ApplyPatchAdd(c, rc) ==
    /\ call[c].pc = "apply_patch_add"
    /\ call' = [call EXCEPT ![c] = Run(c, "add", rc, "apply_patch_commit")]
    /\ work' = IF rc = 0
               THEN [unstaged |-> FALSE, staged |-> work.staged \/ work.unstaged]
               ELSE work
    /\ UNCHANGED <<repoDb, mem, tmp, loc, made>>

\* Mutant of ApplyPatchCommit: git commit --file <f_msg.name>, without --date
\* and --author: git takes the committer's identity and the current time.
ApplyPatchCommitAsCommitter(c, rc) ==
    /\ call[c].pc = "apply_patch_commit"
    /\ rc = 0 => work.staged
    /\ call' = [call EXCEPT ![c] = Returned(Run(c, "commit", rc, "idle"))]
    /\ tmp' = [tmp EXCEPT ![c] = {}]
    /\ IF rc = 0
       THEN /\ made' = [made EXCEPT ![c] =
                           [author |-> "committer", date |-> "now",
                            message |-> loc[c].f_msg]]
            /\ work' = [work EXCEPT !.staged = FALSE]
       ELSE UNCHANGED <<made, work>>
    /\ UNCHANGED <<repoDb, mem, loc>>

\* git commit --date <date> --author <user> --file <f_msg.name>: it exits 0
\* only with something staged, and has then created a commit of the staged
\* changes with that author, date and message.  The with statement ends and
\* closes both files.
ApplyPatchCommit(c, rc) ==
    /\ call[c].pc = "apply_patch_commit"
    /\ rc = 0 => work.staged
    /\ call' = [call EXCEPT ![c] = Returned(Run(c, "commit", rc, "idle"))]
    /\ tmp' = [tmp EXCEPT ![c] = {}]
    /\ IF rc = 0
       THEN /\ made' = [made EXCEPT ![c] =
                           [author |-> loc[c].user, date |-> loc[c].date,
                            message |-> loc[c].f_msg]]
            /\ work' = [work EXCEPT !.staged = FALSE]
       ELSE UNCHANGED <<made, work>>
    /\ UNCHANGED <<repoDb, mem, loc>>

\* A temporary file left open by a call that is over is closed when the
\* interpreter collects it.
Collect(c) ==
    /\ call[c].pc = "idle"
    /\ tmp[c] # {}
    /\ tmp' = [tmp EXCEPT ![c] = {}]
    /\ UNCHANGED <<repoDb, mem, call>>
    /\ UNCHANGED copyVars

\* last_commit_id(): git rev-parse HEAD; the stripped stdout is returned.
LastCommitId(c, rc) ==
    /\ call[c].pc = "last_commit_id"
    /\ call' = [call EXCEPT ![c] = Returned(Run(c, "rev-parse", rc, "idle"))]
    /\ UNCHANGED <<repoDb, mem, tmp>>
    /\ UNCHANGED copyVars

\* push(): git push.
Push(c, rc) ==
    /\ call[c].pc = "push"
    /\ call' = [call EXCEPT ![c] = Returned(Run(c, "push", rc, "idle"))]
    /\ UNCHANGED <<repoDb, mem, tmp>>
    /\ UNCHANGED copyVars

Init ==
    /\ jobs = <<>>
    /\ now = 0
    /\ result = NoResult
    /\ wpc = [w \in Workers |-> "idle"]
    /\ selected = [w \in Workers |-> 0]
    /\ received = [j \in 1..0 |-> {}]
    /\ fresh = [j \in 1..0 |-> {}]
    /\ jobRevs = <<>>
    /\ enq = NoCall
    /\ readBack = NoRead
    /\ repoDb = NewRepo
    /\ mem = [c \in Callers |-> NewRepo]
    /\ call = [c \in Callers |-> NoMethod]
    /\ tmp = [c \in Callers |-> {}]
    /\ work = CleanCopy
    /\ loc = [c \in Callers |-> NoLocals]
    /\ made = [c \in Callers |-> NoCommit]

QueryNext ==
    \/ Tick /\ UNCHANGED <<workerVars, enqueueVars, repoVars>>
    \/ \E params \in QueryJobParams :
           SaveJob(params) /\ UNCHANGED <<workerVars, enqueueVars, repoVars>>
    \/ \E repositories \in RepositoriesArgs, grace_seconds \in 0..MaxGrace :
           Query(repositories, grace_seconds) /\ UNCHANGED <<workerVars, enqueueVars, repoVars>>

\* The queue query over tables of every mix of rows.
QuerySpec == Init /\ [][QueryNext]_vars

(***************************************************************************)
(* The queue query's properties (QuerySpec).                               *)
(***************************************************************************)
\* The pairs of positions i < j of the rows the query returned.
ResultPairs ==
    {p \in (DOMAIN result.rows) \X (DOMAIN result.rows) : p[1] < p[2]}

\* C3 (as claimed): in the rows of a query restricted to one repository, no
\* SUBMITTED or DEFERRED job comes before an IN_PROGRESS job.
C3_InProgressFirst ==
    (result.evaluated /\ \E r \in Repos : result.repositories = RepositoriesOf({r}))
    => \A p \in ResultPairs :
           ~(/\ result.rows[p[1]].status # IN_PROGRESS
             /\ result.rows[p[2]].status = IN_PROGRESS)

\* C4: every job the queue query returns has status SUBMITTED, IN_PROGRESS or
\* DEFERRED, whatever statuses the table holds.
C4_OnlyApplicableStatuses ==
    \A i \in DOMAIN result.rows :
        result.rows[i].status \in {SUBMITTED, IN_PROGRESS, DEFERRED}

\* C4's case: a query that filtered nothing else returned a job while the
\* table held a LANDED job.
C4_Witness ==
    /\ result.evaluated
    /\ result.rows # <<>>
    /\ result.grace_seconds = 0
    /\ result.repositories = RepositoriesNone
    /\ \E j \in DOMAIN jobs : jobs[j].status = LANDED

C6_GraceEveryValue ==
    \A i \in DOMAIN result.rows :
        result.rows[i].created_at < result.at - result.grace_seconds

\* C6 (amended): for every grace_seconds other than 0, every returned job was
\* created strictly before now - grace_seconds (a job created exactly at the
\* cutoff is not returned); grace_seconds = 0 filters nothing.
C6_GraceNonZero ==
    result.grace_seconds # 0
    => \A i \in DOMAIN result.rows :
           result.rows[i].created_at < result.at - result.grace_seconds

\* C6's case: a query with a grace period returned a job while a queued job
\* created exactly at the cutoff was left out.
C6_Witness ==
    /\ result.evaluated
    /\ result.grace_seconds > 0
    /\ result.repositories = RepositoriesNone
    /\ result.rows # <<>>
    /\ \E j \in DOMAIN jobs :
           /\ jobs[j].status = SUBMITTED
           /\ jobs[j].created_at = result.at - result.grace_seconds
           /\ \A i \in DOMAIN result.rows : result.rows[i].id # j

\* C7 (as claimed): whenever a collection of repositories is supplied, an
\* empty one included, every returned job's target_repo is in the collection.
C7_RepositoryRestriction ==
    (result.evaluated /\ ~result.repositories.isNone)
    => \A i \in DOMAIN result.rows :
           result.rows[i].target_repo \in result.repositories.items

\* C18: a query with grace_seconds = 0 returns every job of the table that has
\* an applicable status and, when repositories are named, one of them as its
\* target, whenever it was created; and of two SUBMITTED jobs of equal
\* priority it returns the one created earlier first.
C18_ZeroGraceFiltersNoAge ==
    (result.evaluated /\ result.grace_seconds = 0)
    => /\ \A j \in DOMAIN jobs :
              (/\ jobs[j].status \in {SUBMITTED, IN_PROGRESS, DEFERRED}
               /\ \/ result.repositories.isNone
                  \/ jobs[j].target_repo \in result.repositories.items)
              => \E i \in DOMAIN result.rows : result.rows[i] = jobs[j]
       /\ \A p \in ResultPairs :
              LET a == result.rows[p[1]]
                  b == result.rows[p[2]]
              IN  (/\ a.status = SUBMITTED
                   /\ b.status = SUBMITTED
                   /\ a.priority = b.priority)
                  => a.created_at <= b.created_at

\* C18's case: at time 1, a query for one repository with grace_seconds = 0
\* returned two SUBMITTED jobs of equal priority, the one created at 0 and
\* then the one created at 1, the current instant.
C18_Witness ==
    /\ result.evaluated
    /\ result.grace_seconds = 0
    /\ result.repositories = RepositoriesOf({"r1"})
    /\ result.at = 1
    /\ Len(result.rows) = 2
    /\ result.rows[1].status = SUBMITTED
    /\ result.rows[2].status = SUBMITTED
    /\ result.rows[1].priority = result.rows[2].priority
    /\ result.rows[1].created_at = 0
    /\ result.rows[2].created_at = 1

(***************************************************************************)
(* Claiming: LandingJob.next_job and the worker's claim transaction.       *)
(***************************************************************************)
\* Mutant of RowLockFree: the query without select_for_update(), which waits
\* for nobody.
RowLockFreeUnlocked(w, id) == TRUE

\* query.select_for_update(): the row is returned to w's transaction only
\* while no other open transaction holds its lock (the SELECT blocks until
\* then).
RowLockFree(w, id) ==
    \A v \in Workers \ {w} : ~(wpc[v] = "locked" /\ selected[v] = id)

\* LandingJob.next_job(repositories): the queue query with the default grace
\* period.
NextJobRows(repositories) ==
    JobQueueQuery(jobs, repositories, DEFAULT_GRACE_SECONDS, now)

\* Who has been given job j so far (nobody, for a job never returned).
ReceivedBy(j) == IF j \in DOMAIN received THEN received[j] ELSE {}

FreshTo(j) == IF j \in DOMAIN fresh THEN fresh[j] ELSE {}

\* Worker w opens a transaction and takes the first row of
\* next_job(repositories), locked for update.  With no row to take the worker
\* stays idle.
NextJob(w, repositories) ==
    /\ wpc[w] = "idle"
    /\ \E rows \in NextJobRows(repositories) :
           /\ rows # <<>>
           /\ LET job == Head(rows)
              IN  /\ RowLockFree(w, job.id)
                  /\ selected' = [selected EXCEPT ![w] = job.id]
                  /\ received' = [j \in DOMAIN jobs |->
                         IF j = job.id THEN ReceivedBy(j) \cup {w} ELSE ReceivedBy(j)]
                  /\ fresh' = [j \in DOMAIN jobs |->
                         IF j = job.id /\ job.status # IN_PROGRESS
                         THEN FreshTo(j) \cup {w} ELSE FreshTo(j)]
    /\ wpc' = [wpc EXCEPT ![w] = "locked"]
    /\ UNCHANGED queueVars

\* Worker w sets the job it selected to IN_PROGRESS and commits, which makes
\* the new status visible and releases the row lock.
ClaimCommit(w) ==
    /\ wpc[w] = "locked"
    /\ jobs' = [jobs EXCEPT ![selected[w]].status = IN_PROGRESS]
    /\ wpc' = [wpc EXCEPT ![w] = "idle"]
    /\ selected' = [selected EXCEPT ![w] = 0]
    /\ UNCHANGED <<now, result, received, fresh>>

\* The jobs the claiming specification enqueues: SUBMITTED, on a repository.
ClaimJobParams ==
    [status : {SUBMITTED}, priority : Priorities, target_repo : Repos]

Next ==
    \/ Tick /\ UNCHANGED <<workerVars, enqueueVars, repoVars>>
    \/ \E params \in ClaimJobParams :
           SaveJob(params) /\ UNCHANGED <<workerVars, enqueueVars, repoVars>>
    \/ \E w \in Workers, repositories \in RepositoriesArgs :
           NextJob(w, repositories) /\ UNCHANGED <<enqueueVars, repoVars>>
    \/ \E w \in Workers : ClaimCommit(w) /\ UNCHANGED <<enqueueVars, repoVars>>

\* Jobs are enqueued as SUBMITTED and two workers claim them.
Spec == Init /\ [][Next]_vars

\* C1 (as claimed): no job is received from next_job by both workers.
C1_NoJobReceivedTwice ==
    \A j \in DOMAIN received : Cardinality(received[j]) <= 1

\* C1 (amended): no two workers hold the same job inside their claim
\* transactions at the same time, and a job is received in a status other than
\* IN_PROGRESS by at most one worker; a job that was set IN_PROGRESS stays in
\* the queue and a later next_job may return it to the other worker.
C1_NoConcurrentClaim ==
    /\ \A v \in Workers, w \in Workers :
           (v # w /\ wpc[v] = "locked" /\ wpc[w] = "locked")
           => selected[v] # selected[w]
    /\ \A j \in DOMAIN fresh : Cardinality(fresh[j]) <= 1

\* C1's case: both workers are inside a claim transaction at once, and one of
\* the jobs has been received by both.
C1_Witness ==
    /\ \A w \in Workers : wpc[w] = "locked"
    /\ \E j \in DOMAIN received : received[j] = Workers

\* C2 (as claimed): at most one job per target repository is IN_PROGRESS.
C2_OneInProgressPerRepo ==
    \A r \in Repos :
        Cardinality({i \in DOMAIN jobs :
            jobs[i].target_repo = r /\ jobs[i].status = IN_PROGRESS}) <= 1

EnqueueNext ==
    \/ Tick /\ readBack' = NoRead /\ UNCHANGED <<jobRevs, enq, workerVars, repoVars>>
    \/ \E revisions \in RevisionLists, params \in EnqueueJobParams :
           AddJobSave(revisions, params) /\ UNCHANGED <<workerVars, repoVars>>
    \/ AddRevision /\ UNCHANGED <<workerVars, repoVars>>
    \/ AddJobReturn /\ UNCHANGED <<workerVars, repoVars>>
    \/ \E j \in DOMAIN jobs : ReadRevisions(j) /\ UNCHANGED <<workerVars, repoVars>>
    \/ \E grace_seconds \in 0..MaxGrace :
           /\ Query(RepositoriesNone, grace_seconds)
           /\ readBack' = NoRead
           /\ UNCHANGED <<jobRevs, enq, workerVars, repoVars>>

\* Jobs are enqueued with their revisions, read back and queried.
EnqueueSpec == Init /\ [][EnqueueNext]_vars

\* C8 (as claimed): every job created by add_job_with_revisions has status
\* SUBMITTED, and so is returned by a query that filters on no repository once
\* it is older than the grace period.
C8_CreatedSubmitted ==
    /\ \A j \in DOMAIN jobs : jobs[j].status = SUBMITTED
    /\ result.evaluated
       => \A j \in DOMAIN jobs :
              jobs[j].created_at < result.at - result.grace_seconds
              => \E i \in DOMAIN result.rows : result.rows[i].id = j

\* C9 (as claimed): once add_job_with_revisions(r1..rn) has returned, reading
\* the job's revisions back yields r1..rn in the order given.
C9_RevisionOrderPreserved ==
    (enq.pc = "idle" /\ readBack.job # 0 /\ readBack.job = enq.job)
    => readBack.revisions = enq.revisions

RepoNext ==
    \/ \E c \in Callers : Fetch(c) /\ UNCHANGED otherVars
    \/ \E c \in Callers, op \in RepoMethods : Start(c, op) /\ UNCHANGED otherVars
    \/ \E c \in Callers : InitializeRefresh(c) /\ UNCHANGED otherVars
    \/ \E c \in Callers, rc \in ExitCodes : InitializeClone(c, rc) /\ UNCHANGED otherVars
    \/ \E c \in Callers : InitializeSave(c) /\ UNCHANGED otherVars
    \/ \E c \in Callers, rc \in ExitCodes : Pull(c, rc) /\ UNCHANGED otherVars
    \/ \E c \in Callers, rc \in ExitCodes : ResetHard(c, rc) /\ UNCHANGED otherVars
    \/ \E c \in Callers, rc \in ExitCodes : ResetClean(c, rc) /\ UNCHANGED otherVars
    \/ \E c \in Callers, patch_buffer \in PatchBuffers :
           ApplyPatchParse(c, patch_buffer) /\ UNCHANGED otherVars
    \/ \E c \in Callers, ok \in BOOLEAN : ApplyPatchMsgFile(c, ok) /\ UNCHANGED otherVars
    \/ \E c \in Callers, ok \in BOOLEAN : ApplyPatchDiffFile(c, ok) /\ UNCHANGED otherVars
    \/ \E c \in Callers, ok \in BOOLEAN : ApplyPatchWrite(c, ok) /\ UNCHANGED otherVars
    \/ \E c \in Callers, rc \in ExitCodes : ApplyPatchApply(c, rc) /\ UNCHANGED otherVars
    \/ \E c \in Callers, rc \in ExitCodes : ApplyPatchAdd(c, rc) /\ UNCHANGED otherVars
    \/ \E c \in Callers, rc \in ExitCodes : ApplyPatchCommit(c, rc) /\ UNCHANGED otherVars
    \/ \E c \in Callers : Collect(c) /\ UNCHANGED otherVars
    \/ \E c \in Callers, rc \in ExitCodes : LastCommitId(c, rc) /\ UNCHANGED otherVars
    \/ \E c \in Callers, rc \in ExitCodes : Push(c, rc) /\ UNCHANGED otherVars

\* Callers run the methods of a Repo; git exits as it likes.
RepoSpec == Init /\ [][RepoNext]_vars

\* C10 (as claimed): a Repo method that has returned normally ran no command
\* that exited non-zero.
C10_NoSwallowedExit ==
    \A c \in Callers :
        call[c].outcome = "returned"
        => \A i \in DOMAIN call[c].cmds : call[c].cmds[i].returncode = 0

C12_SystemPathOnlyIfInitialized ==
    /\ repoDb.system_path # "" => repoDb.is_initialized
    /\ \A c \in Callers : mem[c].system_path # "" => mem[c].is_initialized

(***************************************************************************)
(* Repo.apply_patch (RepoSpec).                                            *)
(***************************************************************************)
\* C13: a commit that an apply_patch call has created carries the From of the
\* patch buffer's header as its author, the header's Date as its date and the
\* buffer's commit message as its message.
C13_CommitCarriesPatchHeader ==
    \A c \in Callers :
        made[c] # NoCommit
        => /\ call[c].op = "apply_patch"
           /\ loc[c].patch_buffer \in PatchBuffers \ {NotAPatch}
           /\ made[c].author = loc[c].patch_buffer.From
           /\ made[c].date = loc[c].patch_buffer.Date
           /\ made[c].message = loc[c].patch_buffer.description

\* An apply_patch call whose three commands all exited 0 has returned, and has
\* created a commit, while the other caller has applied the other patch.
C13_Witness ==
    \E c \in Callers, d \in Callers :
        /\ c # d
        /\ call[c].op = "apply_patch"
        /\ call[c].outcome = "returned"
        /\ \A i \in DOMAIN call[c].cmds : call[c].cmds[i].returncode = 0
        /\ made[c] = [author |-> "author1", date |-> "date1", message |-> "message1"]
        /\ made[d] = [author |-> "author2", date |-> "date2", message |-> "message2"]

\* C14 (as claimed): within apply_patch a command runs only if the command
\* before it exited 0, and a call whose `git apply` failed creates no commit.
C14_StepsStopAtFailure ==
    \A c \in Callers :
        call[c].op = "apply_patch"
        => /\ \A i \in DOMAIN call[c].cmds :
                  i > 1 => call[c].cmds[i - 1].returncode = 0
           /\ (call[c].cmds # <<>> /\ call[c].cmds[1].returncode # 0)
              => made[c] = NoCommit

(***************************************************************************)
(* Enqueueing against the queue query (EnqueueSpec).                       *)
(***************************************************************************)
\* C15 (as claimed): the queue query never returns a job while
\* add_job_with_revisions has associated only a part of its revisions with it.
C15_EnqueueAtomic ==
    (/\ result.evaluated
     /\ enq.pc = "adding"
     /\ jobRevs[enq.job] # {enq.revisions[i] : i \in DOMAIN enq.revisions})
    => \A i \in DOMAIN result.rows : result.rows[i].id # enq.job

(***************************************************************************)
(* Concurrent initialize() calls and apply_patch's files (RepoSpec).       *)
(***************************************************************************)
\* C16 (as claimed): of the initialize() calls on the Repo record, at most one
\* gets past the is_initialized check and clones: no two callers have each
\* run a clone that exited 0.
C16_CloneAtMostOnce ==
    Cardinality({c \in Callers :
        /\ call[c].op = "initialize"
        /\ \E i \in DOMAIN call[c].cmds :
               call[c].cmds[i] = [cmd |-> "clone", returncode |-> 0]}) <= 1

\* C17 (as claimed): once an apply_patch call is over, however it ended, none
\* of its temporary files is open.
C17_TemporaryFilesClosed ==
    \A c \in Callers :
        (call[c].op = "apply_patch" /\ call[c].pc = "idle") => tmp[c] = {}

(***************************************************************************)
(* What the Repo methods write (RepoSpec).                                 *)
(***************************************************************************)
\* C19: a step of pull, reset, apply_patch, last_commit_id or push changes
\* neither the Repo record nor is_initialized and system_path of the caller's
\* object; and the record changes only in the step in which an initialize()
\* call, its clone having exited 0, saves and returns.
C19_OnlyInitializeWrites ==
    [][/\ \A c \in Callers :
             (/\ call[c].op \in RepoMethods \ {"initialize"}
              /\ call[c].pc # "idle"
              /\ call'[c] # call[c])
             => (repoDb' = repoDb /\ mem'[c] = mem[c])
       /\ repoDb' # repoDb
          => \E c \in Callers :
                 /\ call[c].op = "initialize"
                 /\ call[c].cmds = <<[cmd |-> "clone", returncode |-> 0]>>
                 /\ call'[c].outcome = "returned"
                 /\ repoDb' = [is_initialized |-> TRUE, system_path |-> RepoPath]]_vars

\* C19's case: an initialize() call whose clone failed is over and another
\* caller's apply_patch has returned, and the record is as created.
C19_Witness ==
    \E c \in Callers, d \in Callers :
        /\ c # d
        /\ call[c].op = "initialize"
        /\ call[c].outcome = "raised"
        /\ call[c].cmds = <<[cmd |-> "clone", returncode |-> 1]>>
        /\ call[d].op = "apply_patch"
        /\ call[d].outcome = "returned"
        /\ repoDb = NewRepo

====
